---- MODULE Spec2Model ----
(***************************************************************************)
(* HomebridgeMQTTBase: a base class that keeps a local state object in     *)
(* step with an MQTT peer.  setStateAndEmit merges a partial state into    *)
(* this.state, queues the caller's callback and (re)starts a 20 ms         *)
(* debounce timer; when the timer fires the whole state is serialized and  *)
(* published, and the completion of the publish drains callbackQueue.      *)
(*                                                                         *)
(* Objects are sequences of members [key, val] in insertion order (the     *)
(* order JSON.stringify walks).  JavaScript values are written as strings: *)
(* "true", "false", "undefined"; the transport's "no error" is "null".     *)
(* A callback is identified by the number of the setStateAndEmit call that *)
(* passed it.  Time is not measured: the debounce timer, once armed, fires *)
(* at some later step, and a publish completes at some step after it was   *)
(* issued, in any order with other publishes.                              *)
(***************************************************************************)
EXTENDS Integers, Sequences, FiniteSets, TLC

\* ---------------------------------------------------------------- bounds
\* setStateAndEmit calls made, and quiet periods (flushes) they fall into
MaxCalls == 3
MaxFlushes == 2

\* ------------------------------------------------------- configuration
outboundTopic == "foo/bar"
inboundTopic == "bar/foo"

Keys == {"on", "foo"}
Values == {"true", "false", "undefined"}
\* what client.publish, the 'error' event and subscribe report ("null": none)
Errors == {"E1"}
ConnectionErrors == {"ECONNREFUSED"}
SubscribeErrors == {"ESUBSCRIBE"}
Topics == {outboundTopic, "foo"}

\* the partial states callers pass to setStateAndEmit
Partials ==
  { << >>,
    << [key |-> "on", val |-> "true"] >>,
    << [key |-> "foo", val |-> "true"], [key |-> "on", val |-> "false"] >> }

\* the value pushed when setStateAndEmit is called without a callback
NoCallback == 0

VARIABLES
  state,          \* this.state
  callbackQueue,  \* this.callbackQueue
  timers,         \* number of pending debounce timers
  inflight,       \* client.publish calls whose completion is outstanding
  calls,          \* history: the callback and the flush period of each
                  \*   setStateAndEmit call made so far
  pending,        \* history: the partials passed since the last flush
  flushed,        \* history: this.state as it was at the last flush
  sent,           \* history: the number of client.publish calls made so far
  completed,      \* history: the publish completions handled so far
  invoked,        \* history: the callback invocations made so far
  event,          \* the handler that ran last, with its arguments
  log,            \* what the last handler passed to this._log
  hookCalls,      \* the arguments the last handler passed to onRemoteStateChange
  thrown          \* the exception the last handler ended with, or "none"

vars == << state, callbackQueue, timers, inflight, calls, pending, flushed,
           sent, completed, invoked, event, log, hookCalls, thrown >>

coalescer == << state, callbackQueue, timers, inflight, calls, pending,
                flushed, sent, completed, invoked >>

\* --------------------------------------------------------- pure helpers
HasKey(obj, k) == \E i \in 1..Len(obj) : obj[i].key = k

Get(obj, k) == obj[CHOOSE i \in 1..Len(obj) : obj[i].key = k].val

\* one property assignment target[k] = v: an existing key keeps its place
SetMember(target, m) ==
  IF HasKey(target, m.key)
    THEN [i \in 1..Len(target) |->
            IF target[i].key = m.key THEN m ELSE target[i]]
    ELSE Append(target, m)

\* a merge that keeps the value a key already has
RECURSIVE ObjectDefaults(_, _)
ObjectDefaults(target, source) ==
  IF source = << >> THEN target
  ELSE IF HasKey(target, Head(source).key)
    THEN ObjectDefaults(target, Tail(source))
    ELSE ObjectDefaults(Append(target, Head(source)), Tail(source))

RECURSIVE ObjectAssign(_, _)
ObjectAssign(target, source) ==
  IF source = << >> THEN target
  ELSE ObjectAssign(SetMember(target, Head(source)), Tail(source))

RenderMember(m) == "\"" \o m.key \o "\":" \o m.val

RECURSIVE RenderMembers(_)
RenderMembers(obj) ==
  IF obj = << >> THEN ""
  ELSE IF Head(obj).val = "undefined" THEN RenderMembers(Tail(obj))
  ELSE LET rest == RenderMembers(Tail(obj))
       IN  IF rest = "" THEN RenderMember(Head(obj))
           ELSE RenderMember(Head(obj)) \o "," \o rest

JSONStringify(obj) == "{" \o RenderMembers(obj) \o "}"

\* the objects a JSON text over Keys can denote
JSONObjects ==
  { o \in UNION { [1..n -> [key : Keys, val : Values \ {"undefined"}]] :
                  n \in 0..Cardinality(Keys) } :
      \A i, j \in 1..Len(o) : o[i].key = o[j].key => i = j }

\* text |-> the object it denotes, for every well-formed text
JSONTable ==
  LET texts == { JSONStringify(o) : o \in JSONObjects }
  IN  [t \in texts |-> CHOOSE o \in JSONObjects : JSONStringify(o) = t]

IsJSON(payload) == payload \in DOMAIN JSONTable

\* JSON.parse(payload), defined when IsJSON(payload); it throws otherwise
JSONParse(payload) == JSONTable[payload]

\* the payloads the broker delivers
Payloads ==
  { "{\"foo\":false,\"on\":true}", "{\"on\":tru" }

\* ------------------------------------------------------------ initial
Init ==
  /\ state = << >>
  /\ callbackQueue = << >>
  /\ timers = 0
  /\ inflight = {}
  /\ calls = << >>
  /\ pending = << >>
  /\ flushed = << >>
  /\ sent = 0
  /\ completed = {}
  /\ invoked = << >>
  /\ event = [handler |-> "constructor"]
  /\ log = << "Attempting to connect to MQTT broker at mqtt://localhost:1883..." >>
  /\ hookCalls = << >>
  /\ thrown = "none"

\* ------------------------------------------------- transport handlers
onConnect ==
  /\ event' = [handler |-> "onConnect"]
  /\ log' = << "Connection to MQTT broker successfully established!" >>
  /\ hookCalls' = << >>
  /\ thrown' = "none"
  /\ UNCHANGED coalescer

\* a connection error that gives up on the callbacks that are waiting
onErrorRejects(error) ==
  /\ event' = [handler |-> "onError", error |-> error]
  /\ log' = << "Error establishing connection to MQTT broker!", error >>
  /\ hookCalls' = << >>
  /\ thrown' = "none"
  /\ callbackQueue' = << >>
  /\ timers' = 0
  /\ UNCHANGED << state, inflight, calls, pending, flushed, sent, completed,
                  invoked >>

onError(error) ==
  /\ event' = [handler |-> "onError", error |-> error]
  /\ log' = << "Error establishing connection to MQTT broker!", error >>
  /\ hookCalls' = << >>
  /\ thrown' = "none"
  /\ UNCHANGED coalescer

\* onMessage without the topic filter
onMessageAnyTopic(topic, payload) ==
  /\ event' = [handler |-> "onMessage", topic |-> topic, payload |-> payload]
  /\ log' = << "Received " \o payload \o " from " \o outboundTopic >>
  /\ IF IsJSON(payload)
       THEN /\ hookCalls' = << JSONParse(payload) >>
            /\ thrown' = "none"
       ELSE /\ hookCalls' = << >>
            /\ thrown' = "SyntaxError"
  /\ UNCHANGED coalescer

onMessage(topic, payload) ==
  /\ event' = [handler |-> "onMessage", topic |-> topic, payload |-> payload]
  /\ IF topic # outboundTopic
       THEN /\ log' = << >>
            /\ hookCalls' = << >>
            /\ thrown' = "none"
       ELSE /\ log' = << "Received " \o payload \o " from " \o outboundTopic >>
            /\ IF IsJSON(payload)
                 THEN /\ hookCalls' = << JSONParse(payload) >>
                      /\ thrown' = "none"
                 ELSE /\ hookCalls' = << >>
                      /\ thrown' = "SyntaxError"
  /\ UNCHANGED coalescer

onSubscribeComplete(err) ==
  /\ event' = [handler |-> "onSubscribeComplete", err |-> err]
  /\ log' = IF err # "null"
              THEN << "An error occurred subscribing to " \o outboundTopic, err >>
              ELSE << "Successfully subscribed to " \o outboundTopic >>
  /\ hookCalls' = << >>
  /\ thrown' = "none"
  /\ UNCHANGED coalescer

\* ------------------------------------------------------ the coalescer
\* the text message has the value of every member of partial
Carries(message, partial) ==
  \A i \in 1..Len(partial) :
    IF partial[i].val = "undefined"
      THEN ~ HasKey(JSONParse(message), partial[i].key)
      ELSE /\ HasKey(JSONParse(message), partial[i].key)
           /\ Get(JSONParse(message), partial[i].key) = partial[i].val

\* the publishes made so far whose message has the values of partial
CarriedBy(partial) ==
  { p.pub : p \in { q \in inflight \cup completed :
                      Carries(q.message, partial) } }

\* a debounce that stacks a new timer on every call
DebounceStacking(armed) == armed + 1

\* lodash debounce(fn, 20): a call (re)starts the one pending timer
Debounce(armed) == 1

\* a debounce with a leading edge: the first call of a quiet period
\* publishes at once
setStateAndEmitLeading(partial, callback) ==
  /\ Len(calls) < MaxCalls
  /\ timers > 0 \/ sent < MaxFlushes
  /\ event' = [handler |-> "setStateAndEmit", state |-> partial,
               callback |-> callback]
  /\ log' = << "Setting state " \o JSONStringify(partial) >>
  /\ callbackQueue' = Append(callbackQueue, callback)
  /\ state' = ObjectAssign(state, partial)
  /\ timers' = Debounce(timers)
  /\ calls' = Append(calls, [callback |-> callback, epoch |-> sent,
                              carriedBy |-> CarriedBy(partial)])
  /\ IF timers = 0
       THEN /\ sent' = sent + 1
            /\ inflight' = inflight \cup {[pub |-> sent + 1,
                                           topic |-> inboundTopic,
                                           message |-> JSONStringify(state')]}
            /\ pending' = << >>
            /\ flushed' = state'
       ELSE /\ pending' = Append(pending, partial)
            /\ UNCHANGED << inflight, flushed, sent >>
  /\ hookCalls' = << >>
  /\ thrown' = "none"
  /\ UNCHANGED << completed, invoked >>

\* a call that puts its callback at the head of the queue
setStateAndEmitUnshift(partial, callback) ==
  /\ Len(calls) < MaxCalls
  /\ timers > 0 \/ sent < MaxFlushes
  /\ event' = [handler |-> "setStateAndEmit", state |-> partial,
               callback |-> callback]
  /\ log' = << "Setting state " \o JSONStringify(partial) >>
  /\ callbackQueue' = << callback >> \o callbackQueue
  /\ state' = ObjectAssign(state, partial)
  /\ timers' = Debounce(timers)
  /\ calls' = Append(calls, [callback |-> callback, epoch |-> sent,
                              carriedBy |-> CarriedBy(partial)])
  /\ pending' = Append(pending, partial)
  /\ hookCalls' = << >>
  /\ thrown' = "none"
  /\ UNCHANGED << inflight, flushed, sent, completed, invoked >>

setStateAndEmit(partial, callback) ==
  /\ Len(calls) < MaxCalls
  /\ timers > 0 \/ sent < MaxFlushes
  /\ event' = [handler |-> "setStateAndEmit", state |-> partial,
               callback |-> callback]
  /\ log' = << "Setting state " \o JSONStringify(partial) >>
  /\ callbackQueue' = Append(callbackQueue, callback)
  /\ state' = ObjectAssign(state, partial)
  /\ timers' = Debounce(timers)
  /\ calls' = Append(calls, [callback |-> callback, epoch |-> sent,
                              carriedBy |-> CarriedBy(partial)])
  /\ pending' = Append(pending, partial)
  /\ hookCalls' = << >>
  /\ thrown' = "none"
  /\ UNCHANGED << inflight, flushed, sent, completed, invoked >>

\* sendMessage(payload, callback): the text handed to client.publish
sendMessage(payload) == JSONStringify(payload)

\* the debounce timer fires: the body of sendStateToClients up to publish
TimerFire ==
  /\ timers > 0
  /\ timers' = timers - 1
  /\ LET message == sendMessage(state)
     IN  /\ event' = [handler |-> "sendStateToClients"]
         /\ log' = << "Publishing " \o message \o " to " \o inboundTopic >>
         /\ sent' = sent + 1
         /\ inflight' = inflight \cup {[pub |-> sent + 1,
                                        topic |-> inboundTopic,
                                        message |-> message]}
  /\ pending' = << >>
  /\ flushed' = state
  /\ hookCalls' = << >>
  /\ thrown' = "none"
  /\ UNCHANGED << state, callbackQueue, calls, completed, invoked >>

\* every callback is handed the transport's error argument as it came
CallbackArgsAlways(error) == << error >>

\* the arguments a queued callback is called with
CallbackArgs(error) == IF error # "null" THEN << error >> ELSE << >>

\* a drain that calls every queued callback and leaves the queue as it was
DrainLoopForEach(queue, error, pub, done) ==
  [queue |-> queue,
   invocations |-> [i \in 1..Len(queue) |->
                      [cb |-> queue[i], args |-> CallbackArgs(error),
                       pub |-> pub]]]

\* a drain that resolves one callback per completion
DrainLoopOnce(queue, error, pub, done) ==
  IF queue = << >> THEN [queue |-> queue, invocations |-> done]
  ELSE [queue |-> Tail(queue),
        invocations |-> Append(done, [cb |-> Head(queue),
                                      args |-> CallbackArgs(error),
                                      pub |-> pub])]

\* a drain that takes the callbacks from the tail of the queue
RECURSIVE DrainLoopPop(_, _, _, _)
DrainLoopPop(queue, error, pub, done) ==
  IF queue = << >> THEN [queue |-> queue, invocations |-> done]
  ELSE DrainLoopPop(SubSeq(queue, 1, Len(queue) - 1), error, pub,
                    Append(done, [cb |-> queue[Len(queue)],
                                  args |-> CallbackArgs(error),
                                  pub |-> pub]))

\* while (callback = this.callbackQueue.shift()) { ... }
\* returns what is left of the queue and the invocations made, in order
RECURSIVE DrainLoop(_, _, _, _)
DrainLoop(queue, error, pub, done) ==
  IF queue = << >> THEN [queue |-> queue, invocations |-> done]
  ELSE IF Head(queue) = NoCallback
    THEN [queue |-> Tail(queue), invocations |-> done]
  ELSE DrainLoop(Tail(queue), error, pub,
                 Append(done, [cb |-> Head(queue),
                               args |-> CallbackArgs(error),
                               pub |-> pub]))

\* a completion that, on an error, arms the timer to publish again
PublishCompleteRetry(n, error) ==
  /\ \E p \in inflight : p.pub = n
  /\ LET p == CHOOSE q \in inflight : q.pub = n
         drain == DrainLoop(callbackQueue, error, n, << >>)
     IN  /\ inflight' = inflight \ {p}
         /\ callbackQueue' = drain.queue
         /\ invoked' = invoked \o drain.invocations
         /\ completed' = completed \cup {[pub |-> n, error |-> error,
                                          message |-> p.message]}
  /\ timers' = IF error # "null" /\ sent < MaxFlushes THEN 1 ELSE timers
  /\ event' = [handler |-> "publishComplete", error |-> error]
  /\ log' = << >>
  /\ hookCalls' = << >>
  /\ thrown' = "none"
  /\ UNCHANGED << state, calls, pending, flushed, sent >>

\* a completion that, on an error, puts this.state back to what it was
\* before the mutations the publish carried
PublishCompleteRollback(n, error) ==
  /\ \E p \in inflight : p.pub = n
  /\ LET p == CHOOSE q \in inflight : q.pub = n
         drain == DrainLoop(callbackQueue, error, n, << >>)
     IN  /\ inflight' = inflight \ {p}
         /\ callbackQueue' = drain.queue
         /\ invoked' = invoked \o drain.invocations
         /\ completed' = completed \cup {[pub |-> n, error |-> error,
                                          message |-> p.message]}
  /\ state' = IF error # "null" THEN << >> ELSE state
  /\ event' = [handler |-> "publishComplete", error |-> error]
  /\ log' = << >>
  /\ hookCalls' = << >>
  /\ thrown' = "none"
  /\ UNCHANGED << timers, calls, pending, flushed, sent >>

\* client.publish reports completion of publish number n with error
\* ("null" for success): the callback passed to sendMessage runs
PublishComplete(n, error) ==
  /\ \E p \in inflight : p.pub = n
  /\ LET p == CHOOSE q \in inflight : q.pub = n
         drain == DrainLoop(callbackQueue, error, n, << >>)
     IN  /\ inflight' = inflight \ {p}
         /\ callbackQueue' = drain.queue
         /\ invoked' = invoked \o drain.invocations
         /\ completed' = completed \cup {[pub |-> n, error |-> error,
                                          message |-> p.message]}
  /\ event' = [handler |-> "publishComplete", error |-> error]
  /\ log' = << >>
  /\ hookCalls' = << >>
  /\ thrown' = "none"
  /\ UNCHANGED << state, timers, calls, pending, flushed, sent >>

\* ------------------------------------------------------- specification
Next ==
  \/ onConnect
  \/ \E error \in ConnectionErrors : onError(error)
  \/ \E topic \in Topics, payload \in Payloads : onMessage(topic, payload)
  \/ \E err \in SubscribeErrors \cup {"null"} : onSubscribeComplete(err)
  \/ \E partial \in Partials : setStateAndEmit(partial, Len(calls) + 1)
  \/ TimerFire
  \/ \E n \in 1..MaxFlushes, error \in Errors \cup {"null"} :
        PublishComplete(n, error)

Spec == Init /\ [][Next]_vars

\* The coalescer alone.  The transport handlers above leave every variable
\* of the coalescer unchanged, so they add only stuttering of those.
CoalescerNext ==
  \/ \E partial \in Partials : setStateAndEmit(partial, Len(calls) + 1)
  \/ TimerFire
  \/ \E n \in 1..MaxFlushes, error \in Errors \cup {"null"} :
        PublishComplete(n, error)

\* the timer fires 20 ms after the last call, and the transport reports on
\* every publish
LiveSpec ==
  /\ Init
  /\ [][CoalescerNext]_vars
  /\ WF_vars(TimerFire)
  /\ \A n \in 1..MaxFlushes :
        WF_vars(\E error \in Errors \cup {"null"} : PublishComplete(n, error))

\* The coalescer with callers that may leave the callback out:
\* setStateAndEmit(state) pushes undefined onto callbackQueue.
AnyCallbackNext ==
  \/ \E partial \in Partials : setStateAndEmit(partial, Len(calls) + 1)
  \/ \E partial \in Partials : setStateAndEmit(partial, NoCallback)
  \/ TimerFire
  \/ \E n \in 1..MaxFlushes, error \in Errors \cup {"null"} :
        PublishComplete(n, error)

AnyCallbackSpec == Init /\ [][AnyCallbackNext]_vars

\* ------------------------------------------------------------ claims
Count(seq, x) == Cardinality({ i \in 1..Len(seq) : seq[i] = x })

InvokedCallbacks == [i \in 1..Len(invoked) |-> invoked[i].cb]

\* the setStateAndEmit call that passed callback cb
CallOf(cb) == calls[CHOOSE n \in 1..Len(calls) : calls[n].callback = cb]

\* the value key k has after merging partials, left to right, into prev
LastWriter(partials, k) ==
  LET writers == { i \in 1..Len(partials) : HasKey(partials[i], k) }
  IN  IF writers = {} THEN 0
      ELSE CHOOSE i \in writers : \A j \in writers : j <= i

MergedValue(prev, partials, k) ==
  IF LastWriter(partials, k) # 0 THEN Get(partials[LastWriter(partials, k)], k)
  ELSE IF HasKey(prev, k) THEN Get(prev, k)
  ELSE "undefined"

\* key |-> value, for the keys whose merged value JSON can carry
MergedMap(prev, partials) ==
  [k \in { k \in Keys : MergedValue(prev, partials, k) # "undefined" } |->
     MergedValue(prev, partials, k)]

AsMap(obj) == [k \in { obj[i].key : i \in 1..Len(obj) } |-> Get(obj, k)]

\* C1: under every interleaving of calls, timer firings and publish
\* completions, each callback passed to setStateAndEmit is either still in
\* callbackQueue (once) or has been invoked (once): never invoked twice,
\* never removed without being invoked.
C1_ResolvedExactlyOnce ==
  \A n \in 1..Len(calls) :
    Count(InvokedCallbacks, calls[n].callback)
      + Count(callbackQueue, calls[n].callback) = 1

\* two publishes overlapped; the later one completed first and drained the
\* callbacks of both, then the earlier one completed on an empty queue
C1_Witness ==
  /\ Len(invoked) >= 2
  /\ \E c, d \in completed :
        /\ c.pub < d.pub
        /\ \A i \in 1..Len(invoked) : invoked[i].pub = d.pub

\* C2: a callback invoked with no error implies that a publish whose
\* message carries the partial of its setStateAndEmit call (one issued after
\* the call, or an earlier one whose message has the same values) has
\* completed without error.
C2_NoFalseSuccess ==
  \A i \in 1..Len(invoked) :
    invoked[i].args = << >> =>
      \E c \in completed :
        /\ c.error = "null"
        /\ \/ c.pub > CallOf(invoked[i].cb).epoch
           \/ c.pub \in CallOf(invoked[i].cb).carriedBy

C4_OnePublishPerQuietPeriod ==
  /\ timers <= 1
  /\ sent = Cardinality({ calls[n].epoch : n \in 1..Len(calls) }) - timers

\* two or more calls shared one quiet period, which has been published
C4_Witness ==
  \E e \in 0..(sent - 1) :
    Cardinality({ n \in 1..Len(calls) : calls[n].epoch = e }) >= 2

\* C5: the message a timer firing hands to the transport denotes the
\* left-to-right merge of the partials passed since the previous flush into
\* the snapshot of the previous flush, and a setStateAndEmit call leaves the
\* messages in flight as they are.
C5_MessageIsMergedSnapshot ==
  [][ /\ sent' # sent =>
           \E p \in inflight' \ inflight :
             /\ p.pub = sent'
             /\ IsJSON(p.message)
             /\ AsMap(JSONParse(p.message)) = MergedMap(flushed, pending)
      /\ calls' # calls => inflight' = inflight ]_vars

\* a flush merged an overwrite of "on", and a call was made while its
\* message was in flight
C5_Witness ==
  /\ pending # << >>
  /\ \E p \in inflight :
        /\ p.pub = sent
        /\ p.message = "{\"on\":false,\"foo\":true}"
        /\ JSONStringify(state) # p.message

\* C6: callbacks registered in the same quiet period are invoked with the
\* same outcome.
C6_SameOutcomePerQuietPeriod ==
  \A i, j \in 1..Len(invoked) :
    CallOf(invoked[i].cb).epoch = CallOf(invoked[j].cb).epoch =>
      invoked[i].args = invoked[j].args

\* C7: the handling of a publish completion invokes every callback that is
\* in callbackQueue, in order, with the error the transport reported as
\* the single argument, or with no argument when it reported none.
C7_BatchGetsPublishOutcome ==
  [][ completed' # completed =>
        \E c \in completed' \ completed :
          /\ Len(invoked') = Len(invoked) + Len(callbackQueue)
          /\ \A i \in 1..Len(callbackQueue) :
                invoked'[Len(invoked) + i] =
                  [cb |-> callbackQueue[i],
                   args |-> IF c.error \in Errors THEN << c.error >> ELSE << >>,
                   pub |-> c.pub] ]_vars

\* one completion resolved a batch of two callbacks with an error, another
\* resolved a callback with success
C7_Witness ==
  \E i, j, k \in 1..Len(invoked) :
    /\ i # j
    /\ invoked[i].pub = invoked[j].pub
    /\ invoked[i].args = << "E1" >>
    /\ invoked[k].args = << >>

\* C8: onMessage calls onRemoteStateChange only for a message on
\* outboundTopic, then once, with the object the payload denotes; no other
\* handler calls it.
C8_HookOnlyForOutboundTopic ==
  /\ event.handler # "onMessage" => hookCalls = << >>
  /\ event.handler = "onMessage" =>
       /\ event.topic # outboundTopic => hookCalls = << >>
       /\ (event.topic = outboundTopic /\ IsJSON(event.payload)) =>
            /\ Len(hookCalls) = 1
            /\ JSONStringify(hookCalls[1]) = event.payload

C8_Witness ==
  /\ event.handler = "onMessage"
  /\ event.topic = outboundTopic
  /\ hookCalls = << << [key |-> "foo", val |-> "false"],
                       [key |-> "on", val |-> "true"] >> >>

\* C9: a setStateAndEmit call invokes no callback and issues no publish;
\* it logs one line, appends its callback to callbackQueue, merges its
\* partial into state and leaves one timer armed.
C9_NothingSynchronous ==
  [][ calls' # calls =>
        /\ invoked' = invoked
        /\ sent' = sent /\ inflight' = inflight /\ completed' = completed
        /\ callbackQueue' =
             Append(callbackQueue, calls'[Len(calls')].callback)
        /\ AsMap(state') = [k \in { k \in Keys :
                                      HasKey(state, k)
                                        \/ HasKey(event'.state, k) } |->
                               MergedValue(state, << event'.state >>, k)]
        /\ timers' = 1
        /\ Len(log') = 1 ]_vars

\* a call returned while an earlier publish was in flight and earlier
\* callbacks were waiting
C9_Witness ==
  /\ event.handler = "setStateAndEmit"
  /\ inflight # {}
  /\ Len(callbackQueue) >= 2
  /\ invoked = << >>

\* C10: a callback is invoked only on the completion of a publish that was
\* issued after its setStateAndEmit call, never on the completion of a
\* publish that was already in flight when the call arrived.
C10_NotResolvedByInflightPublish ==
  \A i \in 1..Len(invoked) :
    invoked[i].pub > CallOf(invoked[i].cb).epoch

\* C11: at most one publish is in flight at any moment.
C11_AtMostOneInFlight == Cardinality(inflight) <= 1

\* C12: callbacks are invoked in the order of their setStateAndEmit calls,
\* within one drain and across flushes.
C12_InvokedInCallOrder ==
  \A i, j \in 1..Len(invoked) : i < j => invoked[i].cb < invoked[j].cb

\* three callbacks were invoked by the completions of two publishes
C12_Witness ==
  /\ Len(invoked) = 3
  /\ invoked[1].pub # invoked[3].pub

\* the callbacks of the calls made so far that have not been invoked, in
\* call order
RECURSIVE Unresolved(_)
Unresolved(n) ==
  IF n = 0 THEN << >>
  ELSE IF \E i \in 1..Len(invoked) : invoked[i].cb = calls[n].callback
    THEN Unresolved(n - 1)
    ELSE Append(Unresolved(n - 1), calls[n].callback)

\* C13: between handlers, callbackQueue holds exactly the callbacks of the
\* calls not yet invoked, in call order (so its length is their number).
C13_QueueIsUnresolvedCalls == callbackQueue = Unresolved(Len(calls))

\* a completion resolved the first call while two later ones wait
C13_Witness ==
  /\ Len(invoked) = 1
  /\ Len(callbackQueue) = 2

\* C14: when the timer has fired and the flush has begun, callbackQueue is
\* not empty.
C14_FlushHasCallbacks ==
  event.handler = "sendStateToClients" => callbackQueue # << >>

\* C15: batches of calls separated by a timer firing produce one publish
\* each, and every callback is invoked on the completion of the publish of
\* its own batch.
C15_ResolvedByOwnPublish ==
  /\ timers = 0 =>
       sent = Cardinality({ calls[n].epoch : n \in 1..Len(calls) })
  /\ \A i \in 1..Len(invoked) :
       invoked[i].pub = CallOf(invoked[i].cb).epoch + 1

\* C16: after a publish completion has been handled callbackQueue is empty,
\* whatever values were enqueued as callbacks.
C16_QueueEmptyAfterCompletion ==
  event.handler = "publishComplete" => callbackQueue = << >>

\* C17: the handling of a publish completion neither arms the timer nor
\* publishes, and there are never more publishes than setStateAndEmit calls.
C17_CompletionSchedulesNothing ==
  [][ /\ completed' # completed =>
           /\ timers' = timers
           /\ sent' = sent
           /\ inflight' \subseteq inflight
      /\ sent' # sent => timers > 0
      /\ sent' <= Len(calls') ]_vars

\* a publish failed and nothing is scheduled or in flight after it
C17_Witness ==
  /\ event.handler = "publishComplete"
  /\ event.error \in Errors
  /\ timers = 0
  /\ inflight = {}

\* C18: this.state changes only in a setStateAndEmit step, and no step
\* removes a key from it; a failed publish leaves it as it is.
C18_OnlyMergeChangesState ==
  [][ /\ calls' = calls => state' = state
      /\ \A k \in Keys : HasKey(state, k) => HasKey(state', k) ]_vars

\* a publish that carried mutations failed, and the state still has them
C18_Witness ==
  /\ event.handler = "publishComplete"
  /\ event.error \in Errors
  /\ state # << >>
  /\ \E c \in completed : c.error \in Errors /\ c.message = JSONStringify(state)

TransportHandlers ==
  { "onConnect", "onError", "onSubscribeComplete", "onMessage" }

\* C19: a transport handler leaves state, callbackQueue and the timer as
\* they are, invokes no callback and issues no publish; after a connection
\* or subscription error an armed timer can still fire, a publish in
\* flight can still complete and a further call can still be made.
C19_TransportLeavesCoalescer ==
  /\ [][ event'.handler \in TransportHandlers =>
            /\ state' = state
            /\ callbackQueue' = callbackQueue
            /\ timers' = timers
            /\ invoked' = invoked
            /\ inflight' = inflight /\ sent' = sent ]_vars
  /\ [] ( (event.handler \in { "onError", "onSubscribeComplete" }) =>
            /\ timers > 0 => ENABLED TimerFire
            /\ \A p \in inflight :
                 ENABLED PublishComplete(p.pub, "null")
            /\ (Len(calls) < MaxCalls /\ sent < MaxFlushes) =>
                 ENABLED setStateAndEmit(<< >>, Len(calls) + 1) )

\* a connection error arrived while a callback waited, the timer was armed
\* and a publish was in flight
C19_Witness ==
  /\ event.handler = "onError"
  /\ callbackQueue # << >>
  /\ timers = 1
  /\ inflight # {}

\* C20: after onMessage got a malformed payload on outboundTopic, the
\* failure has been logged and onRemoteStateChange has not been called.
C20_MalformedPayloadLogged ==
  (/\ event.handler = "onMessage"
   /\ event.topic = outboundTopic
   /\ ~ IsJSON(event.payload)) =>
     /\ hookCalls = << >>
     /\ \E i \in 1..Len(log) : log[i] = "SyntaxError"

====
